---------------------------- MODULE Spec2Model ----------------------------
(***************************************************************************)
(* A model of src/bot.py: the SQLite delivery cache (get_cache/set_cache), *)
(* the fit loop transcode_high_quality, the planner choose_direct_format   *)
(* and the request worker process_url_in_background.                       *)
(*                                                                         *)
(* Sizes are counted in MB, so TELEGRAM_LIMIT_BYTES, 48 * 1024 * 1024 in   *)
(* the source, is 48 here.  A URL is the pair of its domain and the id of  *)
(* the post it names.  Python's None in an Optional[int] position is the   *)
(* integer None below (every real size, height and duration is >= 0); an   *)
(* optional tuple or dict is the empty sequence when it is None and a      *)
(* one-element or four-element sequence otherwise.                         *)
(***************************************************************************)
EXTENDS Integers, Sequences, FiniteSets, TLC

None == -1

TELEGRAM_LIMIT_BYTES == 48

MAX_DOWNLOAD_RETRIES == 2

\* `x or y` on Optional[int]: None and 0 are falsy.
Truthy(x) == x # None /\ x # 0

PyOr(x, y) == IF Truthy(x) THEN x ELSE y

(***************************************************************************)
(* Values the environment can produce.                                     *)
(***************************************************************************)
URLS == { [domain |-> "tiktok.com", id |-> "a"], [domain |-> "x.com", id |-> "b"] }

\* file_ids the transport assigns
Handles == {"h1", "h2"}

---------------------------------------------------------------------------
(***************************************************************************)
(* SQLITE CACHE.  The table is the set of its rows; updated_at is written  *)
(* by set_cache and read by nothing, and is left out.                      *)
(***************************************************************************)
NoRow == << >>

RowsOf(store, url) == {r \in store : r.url = url}

\* SELECT file_id, kind, size, duration FROM cache WHERE url = ?; fetchone()
get_cache(store, url) ==
    IF RowsOf(store, url) = {} THEN NoRow
    ELSE LET r == CHOOSE r \in RowsOf(store, url) : TRUE
         IN  << r.file_id, r.kind, r.size, r.duration >>

\* A set_cache whose INSERT has no ON CONFLICT clause on a table without
\* the primary key: a second row for the URL.
set_cache_insert_only(store, url, file_id, kind, size, duration) ==
    store \cup { [url |-> url, file_id |-> file_id, kind |-> kind, size |-> size,
                  duration |-> PyOr(duration, 0)] }

\* A set_cache whose ON CONFLICT clause updates the handle alone: size and
\* duration of the earlier entry survive.
set_cache_handle_only(store, url, file_id, kind, size, duration) ==
    IF RowsOf(store, url) # {}
    THEN { IF r.url = url THEN [r EXCEPT !.file_id = file_id] ELSE r : r \in store }
    ELSE store \cup { [url |-> url, file_id |-> file_id, kind |-> kind, size |-> size,
                       duration |-> PyOr(duration, 0)] }

\* INSERT ... ON CONFLICT(url) DO UPDATE SET file_id, kind, size, duration
\* with the parameters (url, file_id, kind, size, duration or 0)
set_cache(store, url, file_id, kind, size, duration) ==
    LET excluded == [url |-> url, file_id |-> file_id, kind |-> kind,
                     size |-> size, duration |-> PyOr(duration, 0)]
    IN  IF RowsOf(store, url) # {}
        THEN { IF r.url = url
               THEN [r EXCEPT !.file_id = excluded.file_id,
                              !.kind = excluded.kind,
                              !.size = excluded.size,
                              !.duration = excluded.duration]
               ELSE r : r \in store }
        ELSE store \cup {excluded}


---------------------------------------------------------------------------
(***************************************************************************)
(* FAST-PATH HELPERS.  A format is one dict of info["formats"]: url is ""  *)
(* when the key is missing, acodec is "" when it is missing, height and    *)
(* the two sizes are None when they are missing.                           *)
(***************************************************************************)
NoFormat == << >>

\* fs = f.get("filesize") or f.get("filesize_approx")
DeclaredSize(f) == PyOr(f.filesize, f.filesize_approx)

\* the candidates loop: a format needs a url, and video or an audio codec
IsCandidate(f) == f.url # "" /\ ~(f.vcodec = "none" /\ f.acodec = "")

Candidates(formats) == SelectSeq(formats, IsCandidate)

\* A key without the minus sign: larger sizes rank first.
score_larger_first(f) == << PyOr(f.height, 0), PyOr(DeclaredSize(f), 0) >>

\* score(f) = (int(h), -int(fs or 0)) with h = height or 0
score(f) == << PyOr(f.height, 0), 0 - PyOr(DeclaredSize(f), 0) >>

\* Python's tuple order
TupleGT(a, b) == a[1] > b[1] \/ (a[1] = b[1] /\ a[2] > b[2])

\* x goes behind every element that does not score below it: the sort is
\* stable, and reverse=True keeps the original order of equal keys
InsertDesc(x, t) ==
    LET k == Cardinality({i \in 1..Len(t) : ~TupleGT(score(x), score(t[i]))})
    IN  SubSeq(t, 1, k) \o << x >> \o SubSeq(t, k + 1, Len(t))

RECURSIVE SortDesc(_)
\* candidates.sort(key=score, reverse=True)
SortDesc(s) ==
    IF s = << >> THEN << >>
    ELSE InsertDesc(s[Len(s)], SortDesc(SubSeq(s, 1, Len(s) - 1)))

\* `fs and fs <= max_bytes`
Fits(f, max_bytes) == Truthy(DeclaredSize(f)) /\ DeclaredSize(f) <= max_bytes

\* A planner that forgets the size test of its selection loop.
choose_direct_format_first(formats, max_bytes) ==
    LET sorted == SortDesc(Candidates(formats))
    IN  IF sorted = << >> THEN NoFormat ELSE << sorted[1] >>

\* choose_direct_format(info, max_bytes), on info["formats"]
choose_direct_format(formats, max_bytes) ==
    LET sorted == SortDesc(Candidates(formats))
        fit    == {i \in 1..Len(sorted) : Fits(sorted[i], max_bytes)}
    IN  IF sorted = << >> THEN NoFormat
        ELSE IF fit # {} THEN << sorted[CHOOSE i \in fit : \A j \in fit : i <= j] >>
        ELSE << sorted[1] >>

---------------------------------------------------------------------------
(***************************************************************************)
(* HELPERS on the extractor's info dict.  An info (and an entry of it) is  *)
(* a record: formats and requested_formats are sequences of formats,       *)
(* duration is None when missing, url and ext are "" when missing, and     *)
(* thumbnails is the sequence of the thumbnails' urls.                     *)
(***************************************************************************)
ImageExts == {"jpg", "jpeg", "png", "webp"}

has_video_in_formats(obj) ==
    \/ \E k \in 1..Len(obj.formats) :
          obj.formats[k].vcodec # "" /\ obj.formats[k].vcodec # "none"
    \/ \E k \in 1..Len(obj.requested_formats) :
          obj.requested_formats[k].vcodec # "none"
    \/ Truthy(obj.duration)

IsImageEntry(e) == ~has_video_in_formats(e) /\ e.url # "" /\ e.ext \in ImageExts

extract_image_urls(info_obj) ==
    LET fromEntries == SelectSeq(info_obj.entries, IsImageEntry)
        images1 == [k \in 1..Len(fromEntries) |-> fromEntries[k].url]
        images2 == IF images1 = << >> /\ info_obj.url # "" /\ info_obj.ext \in ImageExts
                   THEN << info_obj.url >> ELSE images1
        images3 == IF images2 = << >> THEN SelectSeq(info_obj.thumbnails, LAMBDA u : u # "")
                   ELSE images2
    IN  IF has_video_in_formats(info_obj) THEN << >> ELSE images3

---------------------------------------------------------------------------
(***************************************************************************)
(* What the extractor, the fast API and the transport can answer.          *)
(***************************************************************************)
Fmt(url, vcodec, acodec, height, filesize, filesize_approx) ==
    [url |-> url, vcodec |-> vcodec, acodec |-> acodec, height |-> height,
     filesize |-> filesize, filesize_approx |-> filesize_approx]

Obj(formats, duration, entries, url, ext) ==
    [formats |-> formats, requested_formats |-> << >>, duration |-> duration,
     entries |-> entries, url |-> url, ext |-> ext, thumbnails |-> << >>]

\* the most images one post carries
MaxImages == 2

ImageEntry(k) == Obj(<< >>, None, << >>, << "img", k >>, "jpg")

\* a video whose smaller rendition declares a size under the ceiling
InfoFits ==
    Obj(<< Fmt("cdn/hd", "avc1", "mp4a", 720, 90, None),
           Fmt("cdn/sd", "avc1", "mp4a", 360, 40, None) >>, 30, << >>, "", "")

\* a video whose only rendition declares a size over the ceiling
InfoTooBig == Obj(<< Fmt("cdn/hd", "avc1", "mp4a", 720, 90, None) >>, 30, << >>, "", "")

\* a video that declares no size and no duration
InfoUnknown == Obj(<< Fmt("cdn/hd", "avc1", "mp4a", 720, None, None) >>, None, << >>, "", "")

\* a post of n images
InfoPhotos(n) == Obj(<< >>, None, [k \in 1..n |-> ImageEntry(k)], "", "")

\* a post with neither formats nor images
InfoBare == Obj(<< >>, None, << >>, "", "")

Infos == {InfoFits, InfoTooBig, InfoUnknown, InfoBare} \cup {InfoPhotos(n) : n \in 1..MaxImages}

\* Message.video of a send_video answer: None, or a Video, with or without
\* its file_size and duration
Videos ==
    { << >> } \cup
    { << [file_id |-> h, file_size |-> m[1], duration |-> m[2]] >> :
          h \in Handles, m \in {<< None, None >>, << 45, 30 >>} }

\* Content-Length of the HEAD request, None when it gives none
HeadSizes == {None, 45, 90}

\* sizes of a downloaded file
FileSizes == {45, 90}

\* sizes of an ffmpeg output
FitSizes == {45, 70}

\* the stores a process can start with: cache.db outlives the process, and
\* holds what earlier direct sends wrote
InitialCaches ==
    { {} } \cup
    { {[url |-> u, file_id |-> "h1", kind |-> "video", size |-> 40, duration |-> 30]} :
          u \in URLS }

\* the requests each user sends in one run
MaxRequests == 1

\* shadow_%(id)s.%(ext)s in tempfile.gettempdir()
DlName(url) == << "shadow", url.id >>

\* the file yt-dlp wrote when prepare_filename names another one
AltName(url) == << "shadow-alt", url.id >>

\* transcoded_<basename> in the request's own TemporaryDirectory
OutName(t) == << "tmpdir", t >>

---------------------------------------------------------------------------
(***************************************************************************)
(* State.  cache is the SQLite table, files the files that exist (name to  *)
(* size), task the locals of each process_url_in_background task with its  *)
(* position pc; a local is reset once the code no longer reads it.  Kept   *)
(* beside the locals, for the properties: delivered (the sends that        *)
(* succeeded, by strategy), send_failed (the sends of a local file that    *)
(* raised), wrote (set_cache was called) and row (with                     *)
(* what), lastSet (the last set_cache call for each URL), remote (the size *)
(* evidence of the remote url just sent as a video), slept (the backoffs   *)
(* of the retry loop in hand), fast_failure (how the fast API step failed, *)
(* until the probe starts), probed (extract_info was called), auth_seen    *)
(* (where a login requirement was reported) and cache0 (the cache when the *)
(* request started).  load is how many requests the users keep in flight   *)
(* at once, admitted how many requests have come in.  got, planIn and      *)
(* planOut serve the specifications of the cache and of the planner alone. *)
(***************************************************************************)
VARIABLES cache, files, task, load, admitted, lastSet, got, planIn, planOut

vars == << cache, files, task, load, admitted, lastSet, got, planIn, planOut >>

Tasks == {1, 2}

NoUrl == [domain |-> "", id |-> ""]

IdleTask ==
    [pc |-> "idle", url |-> NoUrl, cached |-> NoRow, images |-> << >>, i |-> 0,
     attempt |-> 0, info |-> << >>, best_format |-> NoFormat, fs |-> None,
     head_size |-> None,
     sent |-> << >>, filename |-> << >>, duration |-> None, size |-> 0,
     crf |-> 0, iterations |-> 0, codec |-> "", fit |-> "", reason |-> "",
     delivered |-> {}, send_failed |-> {}, wrote |-> FALSE, row |-> << >>,
     remote |-> {},
     slept |-> << >>,
     fast_failure |-> "", probed |-> FALSE, auth_seen |-> "", cache0 |-> {}]

\* what a step of a task leaves alone
env == << load, admitted, lastSet, got, planIn, planOut >>

NoPlan == [formats |-> << >>, max_bytes |-> 0]

NoCall == [args |-> << >>, replaced |-> FALSE]

InitCommon ==
    /\ files = << >>
    /\ admitted = 0
    /\ task = [t \in Tasks |-> IdleTask]
    /\ lastSet = [u \in URLS |-> NoCall]
    /\ got = [url |-> NoUrl, row |-> NoRow, last |-> << >>]
    /\ planOut = [ran |-> FALSE, best |-> NoFormat]

InFlight == {t \in Tasks : task[t].pc # "idle"}

Terminal(t) == task[t].pc \in {"Done", "Failed"}

\* A transcode that is called in the coroutine itself.
CalledInline(r) == FALSE

\* `await loop.run_in_executor(None, transcode_high_quality, ...)`: the fit
\* of the request runs in a thread of the default executor
Offloaded(r) == r.pc = "ffmpeg"

\* the request keeps the thread of the event loop from one step to the next
HoldsLoop(r) == r.pc = "ffmpeg" /\ ~Offloaded(r)

\* the event loop can run a step of t: no other request keeps its thread
LoopFree(t) == \A u \in Tasks \ {t} : ~HoldsLoop(task[u])

Set(t, r) == LoopFree(t) /\ task' = [task EXCEPT ![t] = r]

Finish(r, pc, reason) ==
    [r EXCEPT !.pc = pc, !.reason = reason]

Delivered(r, how) == [r EXCEPT !.delivered = @ \cup {how}]

\* `"tiktok.com" in url.lower()`
IsTikTok(url) == url.domain = "tiktok.com"

\* where a request goes once the cache stage is over
AfterCache(r) == [r EXCEPT !.pc = IF IsTikTok(r.url) THEN "tiktok" ELSE "probe",
                           !.cached = NoRow]

---------------------------------------------------------------------------
(***************************************************************************)
(* download_media: a message with an allowed URL starts a task.  The       *)
(* lowest free slot takes it.  The first edit_message_text of the task     *)
(* changes nothing whether it fails or not.                                *)
(***************************************************************************)
Admit(t, u) ==
    /\ task[t].pc = "idle"
    /\ Cardinality(InFlight) < load
    /\ admitted < MaxRequests * load
    /\ \A t2 \in Tasks : t2 < t => task[t2].pc # "idle"
    /\ Set(t, [IdleTask EXCEPT !.pc = "cache_check", !.url = u, !.cache0 = cache])
    /\ admitted' = admitted + 1
    /\ UNCHANGED << cache, files, load, lastSet, got, planIn, planOut >>

\* the coroutine has returned: its locals are gone
Reap(t) ==
    /\ Terminal(t)
    /\ Set(t, IdleTask)
    /\ UNCHANGED << cache, files, env >>

(***************************************************************************)
(* 1) cache check                                                          *)
(***************************************************************************)
CacheCheck(t) ==
    LET r == task[t]
        cached == get_cache(cache, r.url)
    IN  /\ r.pc = "cache_check"
        /\ Set(t, IF cached # NoRow THEN [r EXCEPT !.pc = "resend", !.cached = cached]
                  ELSE AfterCache(r))
        /\ UNCHANGED << cache, files, env >>

\* A resend whose except clause reports the failure and returns.
ResendFailedGivesUp(r) == Finish([r EXCEPT !.cached = NoRow], "Failed", "stale-handle")

\* `except Exception` of the cached resend: continue to fresh download
ResendFailed(r) == AfterCache(r)

\* send_video / send_photo / send_document of the cached file_id, then the
\* edit, both inside one try whose except falls through
CacheResend(t) ==
    LET r == task[t]
    IN  /\ r.pc = "resend"
        /\ \E o \in {"send_raises", "edit_raises", "ok"} :
              Set(t, CASE o = "send_raises" -> ResendFailed(r)
                       [] o = "edit_raises" -> AfterCache(Delivered(r, "cache"))
                       [] o = "ok" -> Finish(Delivered(r, "cache"), "Done", "cache"))
        /\ UNCHANGED << cache, files, env >>

(***************************************************************************)
(* TikTok quick API attempt                                                *)
(***************************************************************************)
FastApiFailures ==
    {"edit_raises", "http_error", "timeout", "bad_json", "code_nonzero", "no_fields"}

\* A fast path whose except clause reports the failure and returns.
FastFailedPropagates(r, o) ==
    Finish([r EXCEPT !.fast_failure = o], "Failed", "fast-api-error")

\* `except Exception` of the fast path, and its fall-through ends: on to
\* the yt-dlp probe
FastFailed(r, o) ==
    [r EXCEPT !.pc = "probe", !.fast_failure = o, !.images = << >>, !.i = 0]

TikTokApi(t) ==
    LET r == task[t]
    IN  /\ r.pc = "tiktok"
        /\ \/ \E o \in FastApiFailures : Set(t, FastFailed(r, o))
           \/ \E n \in 1..MaxImages :
                 Set(t, [r EXCEPT !.pc = "tiktok_photos",
                                  !.images = [k \in 1..n |-> << "img", k >>]])
           \/ Set(t, [r EXCEPT !.pc = "tiktok_video"])
        /\ UNCHANGED << cache, files, env >>

\* the send_photo loop over data["images"], then the edit
TikTokSendPhoto(t) ==
    LET r == task[t]
    IN  /\ r.pc = "tiktok_photos"
        /\ \/ /\ r.i < Len(r.images)
              /\ \/ Set(t, FastFailed(r, "send_raises"))
                 \/ Set(t, [Delivered(r, "tiktok") EXCEPT !.i = r.i + 1])
           \/ /\ r.i = Len(r.images)
              /\ \/ Set(t, FastFailed(r, "edit_raises"))
                 \/ Set(t, Finish(r, "Done", "tiktok_images"))
        /\ UNCHANGED << cache, files, env >>

\* send_video(video=video_url): the url goes out with no size known
TikTokSendVideo(t) ==
    LET r == task[t]
        q == [Delivered(r, "tiktok") EXCEPT
                 !.remote = {[via |-> "tiktok", size |-> None]}]
    IN  /\ r.pc = "tiktok_video"
        /\ \/ Set(t, FastFailed(r, "send_raises"))
           \/ Set(t, FastFailed(q, "edit_raises"))
           \/ Set(t, Finish(q, "Done", "tiktok_video"))
        /\ UNCHANGED << cache, files, env >>

(***************************************************************************)
(* 2) yt-dlp probe: extract_info(url, download=False), up to               *)
(* MAX_DOWNLOAD_RETRIES + 1 attempts.  "auth" is a DownloadError whose     *)
(* message names cookies or the sign-in check, "download_error" any other  *)
(* DownloadError, "exception" any other exception.                         *)
(***************************************************************************)
ExtractFailures == {"auth", "download_error", "exception"}

\* A probe loop that retries a login requirement like any other failure.
ProbeFailedRetriesAuth(r, o) ==
    LET q == IF o = "auth" THEN [r EXCEPT !.auth_seen = "probe"] ELSE r
    IN  IF q.attempt < MAX_DOWNLOAD_RETRIES THEN [q EXCEPT !.pc = "probe_sleep"]
        ELSE Finish(q, "Failed", "metadata-error")

\* the two except clauses of the probe loop
ProbeFailed(r, o) ==
    IF o = "auth"
    THEN Finish([r EXCEPT !.auth_seen = "probe"], "Failed", "auth-required")
    ELSE IF r.attempt < MAX_DOWNLOAD_RETRIES THEN [r EXCEPT !.pc = "probe_sleep"]
    ELSE Finish(r, "Failed", "metadata-error")

Probe(t) ==
    LET r == task[t]
        q == [r EXCEPT !.fast_failure = "", !.remote = {}, !.probed = TRUE]
    IN  /\ r.pc = "probe"
        /\ \/ \E o \in ExtractFailures : Set(t, ProbeFailed(q, o))
           \/ Set(t, Finish(q, "Failed", "no-metadata"))
           \/ \E info \in Infos :
                 Set(t, [q EXCEPT !.pc = "direct", !.info = << info >>, !.attempt = 0,
                                  !.slept = << >>])
        /\ UNCHANGED << cache, files, env >>

\* A backoff that waits the same time before every attempt.
BackoffFixed(attempt) == 1

\* the wait after the failed attempt `attempt`: 1 + attempt * 2
Backoff(attempt) == 1 + attempt * 2

\* await asyncio.sleep(1 + attempt * 2); continue
ProbeBackoff(t) ==
    LET r == task[t]
    IN  /\ r.pc = "probe_sleep"
        /\ Set(t, [r EXCEPT !.pc = "probe", !.attempt = r.attempt + 1,
                            !.slept = Append(@, << "probe", Backoff(r.attempt) >>)])
        /\ UNCHANGED << cache, files, env >>

(***************************************************************************)
(* FAST PATH: try to send the direct URL without downloading.  Every       *)
(* exception of the stage falls through to the images/video decision.      *)
(***************************************************************************)
\* A fast path whose failure starts the probe over.
LeaveDirectReprobes(r) ==
    [r EXCEPT !.pc = "probe", !.info = << >>, !.best_format = NoFormat, !.fs = None,
              !.head_size = None, !.sent = << >>, !.remote = {}]

LeaveDirect(r) ==
    [r EXCEPT !.pc = "images", !.best_format = NoFormat, !.fs = None,
              !.head_size = None, !.sent = << >>, !.remote = {}]

\* best_format = choose_direct_format(info, TELEGRAM_LIMIT_BYTES), for each
\* descriptor the extractor can give
Planned == [info \in Infos |-> choose_direct_format(info.formats, TELEGRAM_LIMIT_BYTES)]

DirectPlan(t) ==
    LET r == task[t]
        best_format == Planned[r.info[1]]
        fs == IF best_format = NoFormat THEN None ELSE DeclaredSize(best_format[1])
    IN  /\ r.pc = "direct"
        /\ Set(t, IF best_format = NoFormat THEN LeaveDirect(r)
                  ELSE IF Truthy(fs) /\ fs <= TELEGRAM_LIMIT_BYTES
                  THEN [r EXCEPT !.pc = "direct_send", !.best_format = best_format, !.fs = fs]
                  ELSE [r EXCEPT !.pc = "head", !.best_format = best_format, !.fs = fs])
        /\ UNCHANGED << cache, files, env >>

\* head_size = await head_content_length(direct_url)
HeadProbe(t) ==
    LET r == task[t]
    IN  /\ r.pc = "head"
        /\ \E head_size \in HeadSizes :
              Set(t, IF Truthy(head_size) /\ head_size <= TELEGRAM_LIMIT_BYTES
                     THEN [r EXCEPT !.pc = "head_send", !.head_size = head_size]
                     ELSE LeaveDirect(r))
        /\ UNCHANGED << cache, files, env >>

\* the size the branch in hand has checked: fs, or head_size
Checked(r) == IF r.pc = "direct_send" THEN r.fs ELSE r.head_size

\* what set_cache is called with after a direct send
DirectRow(r) ==
    LET video == r.sent[1].video[1]
    IN  [file_id |-> video.file_id, kind |-> "video",
         size |-> PyOr(video.file_size, Checked(r)),
         duration |-> PyOr(video.duration, r.info[1].duration)]

\* A direct send that writes the cache entry before the send has answered.
DirectSendCachesFirst(t) ==
    LET r == task[t]
    IN  /\ r.pc \in {"direct_send", "head_send"}
        /\ \E h \in Handles :
              cache' = set_cache(cache, r.url, h, "video", Checked(r), r.info[1].duration)
        /\ Set(t, LeaveDirect([r EXCEPT !.wrote = TRUE]))
        /\ UNCHANGED << files, env >>

\* the edit, then sent = await bot.send_video(video=direct_url) and, with
\* no await in between, `if sent.video: set_cache(...)`: the task is next
\* suspended in the edit that follows
DirectSend(t) ==
    LET r == task[t]
        q == [Delivered(r, "direct") EXCEPT
                 !.remote = {[via |-> "direct", size |-> Checked(r)]}]
    IN  /\ r.pc \in {"direct_send", "head_send"}
        /\ \/ /\ Set(t, LeaveDirect(r))
              /\ UNCHANGED << cache, lastSet >>
           \/ \E video \in Videos :
                 LET s == [q EXCEPT !.sent = << [video |-> video] >>]
                     row == DirectRow(s)
                     writes == video # << >>
                     args == << row.file_id, row.kind, row.size, row.duration >>
                 IN  /\ cache' = IF writes
                                 THEN set_cache(cache, r.url, row.file_id, row.kind,
                                                row.size, row.duration)
                                 ELSE cache
                     /\ lastSet' = IF writes
                                   THEN [lastSet EXCEPT ![r.url] =
                                            [args |-> args, replaced |-> FALSE]]
                                   ELSE lastSet
                     /\ Set(t, [q EXCEPT !.pc = "direct_return",
                                         !.wrote = r.wrote \/ writes,
                                         !.row = IF writes THEN args ELSE r.row])
        /\ UNCHANGED << files, load, admitted, got, planIn, planOut >>

\* the edit after the send, and the return
DirectReturn(t) ==
    LET r == task[t]
    IN  /\ r.pc = "direct_return"
        /\ \/ Set(t, LeaveDirect(r))
           \/ Set(t, Finish(r, "Done", "direct"))
        /\ UNCHANGED << cache, files, env >>

(***************************************************************************)
(* images vs video decision                                                *)
(***************************************************************************)
ToDownload(r) ==
    [r EXCEPT !.pc = "download", !.info = << >>, !.images = << >>, !.i = 0, !.attempt = 0]

ImagesDecide(t) ==
    LET r == task[t]
        image_urls == extract_image_urls(r.info[1])
    IN  /\ r.pc = "images"
        /\ \/ /\ ~has_video_in_formats(r.info[1]) /\ image_urls # << >>
              /\ Set(t, [r EXCEPT !.pc = "send_photos", !.images = image_urls, !.i = 0])
           \/ Set(t, ToDownload(r))
        /\ UNCHANGED << cache, files, env >>

\* the send_photo loop over image_urls, then the edit
SendPhoto(t) ==
    LET r == task[t]
    IN  /\ r.pc = "send_photos"
        /\ \/ /\ r.i < Len(r.images)
              /\ \/ Set(t, ToDownload(r))
                 \/ Set(t, [Delivered(r, "photos") EXCEPT !.i = r.i + 1])
           \/ /\ r.i = Len(r.images)
              /\ \/ Set(t, ToDownload(r))
                 \/ Set(t, Finish(r, "Done", "images"))
        /\ UNCHANGED << cache, files, env >>

(***************************************************************************)
(* VIDEO PATH: download best quality                                       *)
(***************************************************************************)
Write(fs, name, size) == (name :> size) @@ fs

Remove(fs, name) == [n \in DOMAIN fs \ {name} |-> fs[n]]

\* the two except clauses of the download loop
DownloadFailed(r, o) ==
    IF o = "auth"
    THEN Finish([r EXCEPT !.auth_seen = "download"], "Failed", "auth-required")
    ELSE IF r.attempt < MAX_DOWNLOAD_RETRIES THEN [r EXCEPT !.pc = "download_sleep"]
    ELSE Finish(r, "Failed", "download-error")

\* An artifact check that goes on to the transcode when the file is not
\* there.
ArtifactUnchecked(r, fs) ==
    IF r.filename # << >> /\ r.filename[1] \in DOMAIN fs
    THEN [r EXCEPT !.size = fs[r.filename[1]],
                   !.pc = IF fs[r.filename[1]] <= TELEGRAM_LIMIT_BYTES THEN "send_original"
                          ELSE "transcode"]
    ELSE [r EXCEPT !.pc = "transcode"]

\* `if not filename or not os.path.exists(filename)`, then
\* size = os.path.getsize(filename) and the test against the limit
ArtifactCheck(r, fs) ==
    LET exists == r.filename # << >> /\ r.filename[1] \in DOMAIN fs
        size == fs[r.filename[1]]
    IN  IF ~exists THEN Finish(r, "Failed", "artifact-not-produced")
        ELSE [r EXCEPT !.size = size,
                       !.pc = IF size <= TELEGRAM_LIMIT_BYTES THEN "send_original"
                              ELSE "transcode"]

\* one attempt: the edit (an edit that raises is an "exception"), then,
\* with no await until the next edit, extract_info(url, download=True),
\* prepare_filename and the artifact check
Download(t) ==
    LET r == task[t]
    IN  /\ r.pc = "download"
        /\ \/ /\ \E o \in ExtractFailures : Set(t, DownloadFailed(r, o))
              /\ UNCHANGED files
           \/ \E size \in FileSizes, duration \in {30}, named \in BOOLEAN :
                 /\ files' = Write(files, IF named THEN DlName(r.url) ELSE AltName(r.url), size)
                 /\ Set(t, ArtifactCheck([r EXCEPT !.filename = << DlName(r.url) >>,
                                                   !.duration = duration, !.slept = << >>,
                                                   !.attempt = 0], files'))
        /\ UNCHANGED << cache, env >>

DownloadBackoff(t) ==
    LET r == task[t]
    IN  /\ r.pc = "download_sleep"
        /\ Set(t, [r EXCEPT !.pc = "download", !.attempt = r.attempt + 1,
                            !.slept = Append(@, << "download", Backoff(r.attempt) >>)])
        /\ UNCHANGED << cache, files, env >>

\* open(...) or send_video(video=f) of a local file has raised
SendFailed(r, what) == [r EXCEPT !.send_failed = @ \cup {what}]

\* whether open(filename, "rb") finds the file
CanOpen(r) == r.filename # << >> /\ r.filename[1] \in DOMAIN files

\* send original if within limit: the edit, open(filename), send_video, the
\* edit, os.remove(filename); the first edit, the open or the send, or the
\* second edit can raise, and each goes on to the transcode
SendOriginal(t) ==
    LET r == task[t]
        q == Delivered(r, "original")
    IN  /\ r.pc = "send_original"
        /\ \/ /\ Set(t, [r EXCEPT !.pc = "transcode"])
              /\ UNCHANGED files
           \/ /\ Set(t, SendFailed([r EXCEPT !.pc = "transcode"], "original"))
              /\ UNCHANGED files
           \/ /\ CanOpen(r)
              /\ Set(t, [q EXCEPT !.pc = "transcode"])
              /\ UNCHANGED files
           \/ /\ CanOpen(r)
              /\ Set(t, Finish(q, "Done", "original"))
              /\ files' = Remove(files, r.filename[1])
        /\ UNCHANGED << cache, env >>

(***************************************************************************)
(* transcode if too large: transcode_high_quality runs in the executor,   *)
(* one loop iteration a step.                                              *)
(***************************************************************************)
\* A loop whose quality floor is tested two steps early.
FitReturnsEarly(size, max_bytes, crf) == size <= max_bytes \/ crf >= 26

\* `if size <= max_bytes or crf >= 28: return output_path`
FitReturns(size, max_bytes, crf) == size <= max_bytes \/ crf >= 28

\* A loop that relaxes the quality by one.
NextCrfByOne(crf) == crf + 1

\* crf += 2
NextCrf(crf) == crf + 2

\* the locals of the fit are gone once its result has been looked at
FitOver(r) == [r EXCEPT !.crf = 0, !.iterations = 0, !.codec = ""]

\* the edit, the TemporaryDirectory, crf = 18
TranscodeStart(t) ==
    LET r == task[t]
    IN  /\ r.pc = "transcode"
        /\ \/ Set(t, [r EXCEPT !.pc = "document"])
           \/ Set(t, [r EXCEPT !.pc = "ffmpeg", !.crf = 18, !.iterations = 0,
                               !.codec = "", !.fit = "running"])
        /\ UNCHANGED << cache, files, env >>

\* one iteration: ffmpeg with aac and, when that fails on the audio
\* encoder, with libmp3lame; ffmpeg fails when its input is not there; a
\* failure raises out of the `with`, which removes the directory
Ffmpeg(t) ==
    LET r == [task[t] EXCEPT !.iterations = @ + 1]
    IN  /\ r.pc = "ffmpeg"
        /\ \/ /\ \E o \in {"ffmpeg_fails", "fallback_fails"} :
                    Set(t, [FitOver(r) EXCEPT !.pc = "document", !.fit = "raised",
                                     !.codec = IF o = "fallback_fails" THEN "libmp3lame" ELSE "aac"])
              /\ files' = Remove(files, OutName(t))
           \/ \E size \in FitSizes, codec \in {"aac", "libmp3lame"} :
                 /\ CanOpen(r)
                 /\ files' = Write(files, OutName(t), size)
                 /\ Set(t, IF FitReturns(size, TELEGRAM_LIMIT_BYTES, r.crf)
                           THEN [r EXCEPT !.pc = "after_fit", !.fit = "returned", !.codec = codec]
                           ELSE [r EXCEPT !.crf = NextCrf(r.crf), !.codec = codec])
        /\ UNCHANGED << cache, env >>

\* the checks between the fit and the send; an edit that raises goes to
\* the except clause like everything else inside the try; fit keeps that
\* the fitted file was over the limit
AfterFit(t) ==
    LET r == task[t]
        exists == OutName(t) \in DOMAIN files
        out_size == files[OutName(t)]
    IN  /\ r.pc = "after_fit"
        /\ \E edit \in {"ok", "raises"} :
              /\ Set(t, IF exists /\ out_size <= TELEGRAM_LIMIT_BYTES
                        THEN FitOver([r EXCEPT !.pc = "send_fitted"])
                        ELSE IF edit = "raises"
                        THEN FitOver([r EXCEPT !.pc = "document",
                                               !.fit = IF exists THEN "too-large" ELSE @])
                        ELSE IF ~exists THEN Finish(r, "Failed", "transcode-failed")
                        ELSE Finish([r EXCEPT !.fit = "too-large"], "Failed",
                                    "too-large-after-fit"))
              /\ files' = IF exists /\ out_size <= TELEGRAM_LIMIT_BYTES THEN files
                          ELSE Remove(files, OutName(t))
        /\ UNCHANGED << cache, env >>

\* send_video of the fitted file, the edit, os.remove(filename)
SendFitted(t) ==
    LET r == task[t]
        q == Delivered(r, "fitted")
    IN  /\ r.pc = "send_fitted"
        /\ \/ /\ Set(t, SendFailed([r EXCEPT !.pc = "document"], "fitted"))
              /\ files' = Remove(files, OutName(t))
           \/ /\ Set(t, [q EXCEPT !.pc = "document"])
              /\ files' = Remove(files, OutName(t))
           \/ /\ Set(t, Finish(q, "Done", "optimized"))
              /\ files' = Remove(Remove(files, OutName(t)), r.filename[1])
        /\ UNCHANGED << cache, env >>

\* attempt to send as document
DocumentFallback(t) ==
    LET r == task[t]
        q == Delivered(r, "document")
    IN  /\ r.pc = "document"
        /\ \/ Set(t, Finish(r, "Failed", "final-attempt-failed"))
           \/ CanOpen(r) /\ Set(t, Finish(q, "Failed", "final-attempt-failed"))
           \/ CanOpen(r) /\ Set(t, Finish(q, "Done", "document"))
        /\ UNCHANGED << cache, files, env >>

---------------------------------------------------------------------------
Step(t) ==
    \/ \E u \in URLS : Admit(t, u)
    \/ Reap(t)
    \/ CacheCheck(t)
    \/ CacheResend(t)
    \/ TikTokApi(t)
    \/ TikTokSendPhoto(t)
    \/ TikTokSendVideo(t)
    \/ Probe(t)
    \/ ProbeBackoff(t)
    \/ DirectPlan(t)
    \/ HeadProbe(t)
    \/ DirectSend(t)
    \/ DirectReturn(t)
    \/ ImagesDecide(t)
    \/ SendPhoto(t)
    \/ Download(t)
    \/ DownloadBackoff(t)
    \/ SendOriginal(t)
    \/ TranscodeStart(t)
    \/ Ffmpeg(t)
    \/ AfterFit(t)
    \/ SendFitted(t)
    \/ DocumentFallback(t)

Next == \E t \in Tasks : Step(t)

\* one request at a time
Init == InitCommon /\ load = 1 /\ cache \in InitialCaches /\ planIn = NoPlan

Spec == Init /\ [][Next]_vars

(***************************************************************************)
(* A request from its start to its end.  The event loop runs every task    *)
(* that is ready, and every call the task awaits returns or raises: a      *)
(* started request is not left waiting for ever.                           *)
(***************************************************************************)
RunStep(t) ==
    \/ \E u \in URLS : Admit(t, u)
    \/ CacheCheck(t)
    \/ CacheResend(t)
    \/ TikTokApi(t)
    \/ TikTokSendPhoto(t)
    \/ TikTokSendVideo(t)
    \/ Probe(t)
    \/ ProbeBackoff(t)
    \/ DirectPlan(t)
    \/ HeadProbe(t)
    \/ DirectSend(t)
    \/ DirectReturn(t)
    \/ ImagesDecide(t)
    \/ SendPhoto(t)
    \/ Download(t)
    \/ DownloadBackoff(t)
    \/ SendOriginal(t)
    \/ TranscodeStart(t)
    \/ Ffmpeg(t)
    \/ AfterFit(t)
    \/ SendFitted(t)
    \/ DocumentFallback(t)

NextRun == \E t \in Tasks : RunStep(t)

\* a step of the coroutine of a started request
Run(t) == task[t].pc # "idle" /\ RunStep(t)

LiveSpec == Init /\ [][NextRun]_vars /\ \A t \in Tasks : WF_vars(Run(t))

---------------------------------------------------------------------------
(***************************************************************************)
(* Two users at once, one request each, on an empty cache: the tasks of    *)
(* process_url_in_background interleave at their awaits, and ffmpeg runs   *)
(* in the executor's thread beside them.  Explored are the runs in which   *)
(* the first request is for the x.com post and both requests miss the      *)
(* cache, the fast API times out, the extractor answers at the first       *)
(* attempt with a video, the download leaves its file under the expected   *)
(* name, ffmpeg encodes with aac and is over in one iteration, and the     *)
(* edits around the send of a file succeed; every send can fail.           *)
(***************************************************************************)
RaceInfos == {InfoFits, InfoUnknown}

Calm(r) ==
    /\ r.pc \notin {"resend", "probe_sleep", "download_sleep", "tiktok_photos",
                    "tiktok_video", "send_photos"}
    /\ r.pc = "Failed" => r.reason \in {"final-attempt-failed"}
    /\ r.fast_failure \in {"", "timeout"}
    /\ r.info \in { << >> } \cup { << info >> : info \in RaceInfos }
    /\ r.codec # "libmp3lame"
    /\ r.crf <= 18
    /\ r.pc \in {"transcode", "document", "Failed"} =>
          r.delivered \cap {"original", "fitted", "document"} = {}
    /\ r.pc = "transcode" /\ r.size <= TELEGRAM_LIMIT_BYTES => "original" \in r.send_failed

RaceCalm ==
    /\ \A t \in Tasks : Calm(task[t])
    /\ task[1].url \in {NoUrl} \cup {u \in URLS : ~IsTikTok(u)}

RaceStep(t) ==
    \/ (\E u \in URLS : Admit(t, u)) /\ RaceCalm'
    \/ CacheCheck(t) /\ RaceCalm'
    \/ TikTokApi(t) /\ RaceCalm'
    \/ Probe(t) /\ RaceCalm'
    \/ DirectPlan(t) /\ RaceCalm'
    \/ HeadProbe(t) /\ RaceCalm'
    \/ DirectSend(t) /\ RaceCalm'
    \/ DirectReturn(t) /\ RaceCalm'
    \/ ImagesDecide(t) /\ RaceCalm'
    \/ Download(t) /\ RaceCalm'
    \/ SendOriginal(t) /\ RaceCalm'
    \/ TranscodeStart(t) /\ RaceCalm'
    \/ Ffmpeg(t) /\ RaceCalm'
    \/ AfterFit(t) /\ RaceCalm'
    \/ SendFitted(t) /\ RaceCalm'
    \/ DocumentFallback(t) /\ RaceCalm'

NextRace == \E t \in Tasks : RaceStep(t)

InitRace == InitCommon /\ load = 2 /\ cache = {} /\ planIn = NoPlan

SpecRace == InitRace /\ [][NextRace]_vars

---------------------------------------------------------------------------
(***************************************************************************)
(* Two users at once whose videos have to be fitted: the descriptor holds  *)
(* one rendition over the ceiling, the download leaves a file over the     *)
(* ceiling under the expected name, the HEAD request finds no size within  *)
(* the ceiling, and the fit takes as many iterations as its outputs ask    *)
(* for, in the executor's thread, while the other task goes on.  The fast  *)
(* API times out, the extractor and the download answer at the first       *)
(* attempt, and ffmpeg encodes with aac.                                   *)
(***************************************************************************)
Heavy(r) ==
    /\ r.pc \notin {"resend", "probe_sleep", "download_sleep", "tiktok_photos",
                    "tiktok_video", "send_photos", "direct_send", "head_send",
                    "direct_return", "send_original"}
    /\ r.pc = "Failed" => r.reason \in {"final-attempt-failed", "too-large-after-fit"}
    /\ r.fast_failure \in {"", "timeout"}
    /\ r.info \in { << >>, << InfoTooBig >> }
    /\ r.codec # "libmp3lame"
    /\ r.pc \in {"document", "Failed"} => r.delivered = {}

FitCalm ==
    /\ \A t \in Tasks : Heavy(task[t])
    /\ task[1].url \in {NoUrl} \cup {u \in URLS : ~IsTikTok(u)}

FitStep(t) ==
    \/ (\E u \in URLS : Admit(t, u)) /\ FitCalm'
    \/ CacheCheck(t) /\ FitCalm'
    \/ TikTokApi(t) /\ FitCalm'
    \/ Probe(t) /\ FitCalm'
    \/ DirectPlan(t) /\ FitCalm'
    \/ HeadProbe(t) /\ FitCalm'
    \/ ImagesDecide(t) /\ FitCalm'
    \/ Download(t) /\ FitCalm'
    \/ TranscodeStart(t) /\ FitCalm'
    \/ Ffmpeg(t) /\ FitCalm'
    \/ AfterFit(t) /\ FitCalm'
    \/ SendFitted(t) /\ FitCalm'
    \/ DocumentFallback(t) /\ FitCalm'

NextFit == \E t \in Tasks : FitStep(t)

SpecFit == InitRace /\ [][NextFit]_vars

---------------------------------------------------------------------------
(***************************************************************************)
(* The cache on its own: any sequence of set_cache and get_cache calls.    *)
(* lastSet[u] is the last set_cache call for u (its arguments, and whether *)
(* it replaced a row that differed from it in every field); got is the     *)
(* last get_cache answer with the arguments of the last set_cache call for *)
(* its URL at that time.                                                   *)
(***************************************************************************)
CacheKinds == {"video", "document"}

CacheSizes == {0, 45}

CacheDurations == {None, 30}

CallSetCache(url, file_id, kind, size, duration) ==
    LET old == get_cache(cache, url)
        replaced == /\ old # NoRow
                    /\ old[1] # file_id /\ old[2] # kind /\ old[3] # size
                    /\ old[4] # PyOr(duration, 0)
    IN  /\ cache' = set_cache(cache, url, file_id, kind, size, duration)
        /\ lastSet' = [lastSet EXCEPT ![url] =
                          [args |-> << file_id, kind, size, duration >>, replaced |-> replaced]]
        /\ UNCHANGED << files, task, load, admitted, got, planIn, planOut >>

CallGetCache(url) ==
    /\ got' = [url |-> url, row |-> get_cache(cache, url), last |-> lastSet[url].args]
    /\ UNCHANGED << cache, files, task, load, admitted, lastSet, planIn, planOut >>

NextCache ==
    \/ \E url \in URLS, file_id \in Handles, kind \in CacheKinds, size \in CacheSizes,
          duration \in CacheDurations : CallSetCache(url, file_id, kind, size, duration)
    \/ \E url \in URLS : CallGetCache(url)

InitCache == InitCommon /\ load = 0 /\ cache = {} /\ planIn = NoPlan

SpecCache == InitCache /\ [][NextCache]_vars

(***************************************************************************)
(* The planner on its own: choose_direct_format on every list of at most   *)
(* MaxFormats formats, under a ceiling.                                    *)
(***************************************************************************)
MaxFormats == 2

\* a format without a url comes in one shape
PlanFormats ==
    { f \in [url : {"", "cdn"}, vcodec : {"avc1", "none"}, acodec : {"", "mp4a"},
             height : {None, 360, 720}, filesize : {None, 40, 60},
             filesize_approx : {None, 45}] :
        /\ f.url = "" => f.vcodec = "avc1" /\ f.acodec = "mp4a" /\ f.height = 720
        /\ ~(f.vcodec = "avc1" /\ f.acodec = "") }

FormatLists == UNION { [1..n -> PlanFormats] : n \in 0..MaxFormats }

Ceilings == {40, TELEGRAM_LIMIT_BYTES}

PlanStep ==
    /\ ~planOut.ran
    /\ planOut' = [ran |-> TRUE, best |-> choose_direct_format(planIn.formats, planIn.max_bytes)]
    /\ UNCHANGED << cache, files, task, load, admitted, lastSet, got, planIn >>

NextPlan == PlanStep

InitPlan ==
    /\ InitCommon /\ load = 0 /\ cache = {}
    /\ planIn \in [formats : FormatLists, max_bytes : Ceilings]

SpecPlan == InitPlan /\ [][NextPlan]_vars

---------------------------------------------------------------------------
(***************************************************************************)
(* Properties.                                                             *)
(***************************************************************************)
OneRowPerUrl == \A u \in URLS : Cardinality(RowsOf(cache, u)) <= 1

RowTuple(r) == << r.file_id, r.kind, r.size, r.duration >>

DurationOrZero(args) == << args[1], args[2], args[3], PyOr(args[4], 0) >>

\* C1 as stated: after set_cache(url, h, k, s, d), get_cache(url) returns
\* exactly (h, k, s, d); the store holds at most one entry per URL; a later
\* set_cache for the same URL leaves no field of the earlier entry.
C1_RoundTripExact ==
    /\ got.last # << >> => got.row = got.last
    /\ OneRowPerUrl
    /\ \A u \in URLS :
          lastSet[u].args # << >> =>
              \A r \in RowsOf(cache, u) : RowTuple(r) = lastSet[u].args

\* C1 as amended: get_cache(url) returns (h, k, s, d) with a duration of
\* None read back as 0; at most one entry per URL; a later set_cache for
\* the same URL replaces every field of the earlier entry.
C1_RoundTripDurationOrZero ==
    /\ got.last # << >> => got.row = DurationOrZero(got.last)
    /\ OneRowPerUrl
    /\ \A u \in URLS :
          lastSet[u].args # << >> =>
              /\ RowsOf(cache, u) # {}
              /\ \A r \in RowsOf(cache, u) : RowTuple(r) = DurationOrZero(lastSet[u].args)

\* a get_cache that follows a set_cache with no duration, itself having
\* replaced an entry that differed in every field
C1_Witness ==
    /\ got.last # << >> /\ got.last[4] = None /\ got.row # NoRow
    /\ lastSet[got.url].replaced /\ lastSet[got.url].args = got.last

\* C2 as stated: once the transport has accepted the resend of the cached
\* handle, the request is Done from the cache, no other strategy has
\* delivered, and the cache is as it was.
C2_CacheHitEndsDone ==
    \A t \in Tasks :
        "cache" \in task[t].delivered =>
            /\ task[t].pc = "Done" /\ task[t].reason = "cache"
            /\ task[t].delivered = {"cache"}
            /\ ~task[t].probed
            /\ cache = task[t].cache0

\* C3 as stated: a request that is Done after sending the downloaded
\* original or the fitted video has written the cache entry of its URL.
C3_SendWritesCache ==
    \A t \in Tasks :
        task[t].pc = "Done" /\ task[t].reason \in {"original", "optimized"} =>
            /\ task[t].wrote
            /\ get_cache(cache, task[t].url) # NoRow

\* C4: a request calls set_cache only after a direct send of its own has
\* succeeded, and while no send of the request has succeeded the cache is
\* as it was when the request started.
C4_CacheOnlyAfterSend ==
    \A t \in InFlight :
        /\ task[t].wrote => "direct" \in task[t].delivered
        /\ task[t].delivered = {} => ~task[t].wrote /\ cache = task[t].cache0

C4_Witness ==
    \E t \in Tasks : task[t].wrote /\ cache # task[t].cache0 /\ task[t].pc = "Done"

InFit(t) == task[t].pc \in {"ffmpeg", "after_fit"}

\* C5: the quality parameter is 18 plus 2 for every iteration that went
\* round the loop, so it only moves up, it never passes 28, and the loop
\* runs at most 6 iterations.
C5_FitMonotoneBounded ==
    \A t \in Tasks :
        InFit(t) =>
            /\ task[t].iterations <= 6
            /\ task[t].crf <= 28
            /\ task[t].crf = 18 + 2 * (IF task[t].pc = "ffmpeg" THEN task[t].iterations
                                       ELSE task[t].iterations - 1)

\* the sixth iteration, at the floor
C5_Witness ==
    \E t \in Tasks : task[t].pc = "after_fit" /\ task[t].iterations = 6 /\ task[t].crf = 28

\* what the fit returned is under the ceiling or was made at the floor, and
\* the loop went round only on a size over the ceiling
FitResultFits ==
    \A t \in Tasks :
        /\ task[t].pc = "after_fit" =>
              /\ task[t].fit = "returned"
              /\ OutName(t) \in DOMAIN files
              /\ files[OutName(t)] <= TELEGRAM_LIMIT_BYTES \/ task[t].crf = 28
        /\ task[t].pc = "ffmpeg" /\ task[t].iterations > 0 =>
              /\ files[OutName(t)] > TELEGRAM_LIMIT_BYTES
              /\ task[t].crf <= 28 /\ task[t].iterations <= 5

\* C6 as stated: the fit always returns an output path, at or under the
\* ceiling or made at the floor, and stops at the first size that fits.
C6_FitAlwaysReturns ==
    /\ \A t \in Tasks : task[t].fit # "raised"
    /\ FitResultFits

\* C6 as amended: the fit ends within 6 iterations, by returning an output
\* path or by raising the encode tool's error; a returned file is at or
\* under the ceiling or was made at the floor, and the loop stops at the
\* first size that fits.
C6_FitReturnsOrRaises ==
    /\ \A t \in Tasks : task[t].fit = "raised" => ~InFit(t)
    /\ FitResultFits

\* a file over the ceiling, returned because the floor was reached
C6_Witness ==
    \E t \in Tasks :
        /\ task[t].pc = "after_fit" /\ task[t].crf = 28
        /\ files[OutName(t)] > TELEGRAM_LIMIT_BYTES

PlanCandidates == {planIn.formats[k] : k \in {k \in 1..Len(planIn.formats) : IsCandidate(planIn.formats[k])}}

SizeKnown(f) == Truthy(DeclaredSize(f))

\* C7 as stated: the planner never returns a candidate whose known size
\* exceeds the ceiling, and returns None when every candidate's size is
\* unknown or exceeds the ceiling.
C7_PlannerNeverOversize ==
    planOut.ran =>
        /\ planOut.best # NoFormat =>
              ~(SizeKnown(planOut.best[1]) /\ DeclaredSize(planOut.best[1]) > planIn.max_bytes)
        /\ (\A f \in PlanCandidates : ~Fits(f, planIn.max_bytes)) => planOut.best = NoFormat

\* C7 as amended: when some candidate's declared size is known and within
\* the ceiling the planner returns such a candidate; when none is, it
\* returns a best-ranked candidate (for the caller to check and probe), and
\* it returns None only when there is no candidate.
C7_PlannerFitsOrBestRanked ==
    planOut.ran =>
        /\ planOut.best = NoFormat <=> PlanCandidates = {}
        /\ planOut.best # NoFormat => planOut.best[1] \in PlanCandidates
        /\ (\E f \in PlanCandidates : Fits(f, planIn.max_bytes)) =>
              Fits(planOut.best[1], planIn.max_bytes)
        /\ PlanCandidates # {} /\ (\A f \in PlanCandidates : ~Fits(f, planIn.max_bytes)) =>
              \A f \in PlanCandidates : ~TupleGT(score(f), score(planOut.best[1]))

\* the planner passes over a better-ranked rendition that is too large
C7_Witness ==
    /\ planOut.ran /\ planOut.best # NoFormat
    /\ Fits(planOut.best[1], planIn.max_bytes)
    /\ \E f \in PlanCandidates :
          /\ TupleGT(score(f), score(planOut.best[1]))
          /\ SizeKnown(f) /\ DeclaredSize(f) > planIn.max_bytes

\* C8 as stated: a remote url goes to the transport as a video only with a
\* declared or probed size that is known and within the ceiling.
C8_NoRemoteSendOnFaith ==
    \A t \in Tasks :
        \A e \in task[t].remote : Truthy(e.size) /\ e.size <= TELEGRAM_LIMIT_BYTES

\* C9: a failure of the fast API step leaves the request at the generic
\* extraction, and no request for the fast-API platform ends Failed
\* without having called the extractor.
C9_FastFailureFallsThrough ==
    \A t \in Tasks :
        /\ task[t].fast_failure # "" => task[t].pc = "probe"
        /\ IsTikTok(task[t].url) /\ task[t].pc = "Failed" => task[t].probed

C9_Witness ==
    \E t \in Tasks : task[t].fast_failure \in {"http_error", "timeout"} /\ task[t].pc = "probe"

\* C10: once the probe has reported a login requirement the request is
\* Failed(auth-required): every backoff it slept came before that attempt,
\* nothing was downloaded, and the cache is as it was.
C10_AuthRequiredIsTerminal ==
    \A t \in Tasks :
        task[t].auth_seen = "probe" =>
            /\ task[t].pc = "Failed" /\ task[t].reason = "auth-required"
            /\ Len(task[t].slept) = task[t].attempt
            /\ task[t].filename = << >>
            /\ ~task[t].wrote /\ cache = task[t].cache0

C10_Witness ==
    \E t \in Tasks : task[t].auth_seen = "probe" /\ task[t].pc = "Failed" /\ task[t].attempt = 0

\* C11 as stated, its cache part: a request that is Done after delivering
\* the images of a photo set has stored a handle for its URL with kind
\* "photo".
C11_PhotoSetCachesFirstPhoto ==
    \A t \in Tasks :
        task[t].pc = "Done" /\ task[t].reason = "images" =>
            /\ task[t].wrote
            /\ get_cache(cache, task[t].url) # NoRow
            /\ get_cache(cache, task[t].url)[2] = "photo"

\* C12 as stated: once a request that downloaded a file is Done or Failed,
\* neither the downloaded file nor the re-encoded file exists.
C12_CleanupOnEveryExit ==
    \A t \in Tasks :
        Terminal(t) /\ task[t].filename # << >> =>
            /\ task[t].filename[1] \notin DOMAIN files
            /\ OutName(t) \notin DOMAIN files

\* C13 as stated: the file a running request has downloaded is neither
\* overwritten nor deleted by a step of another request.
C13_FilesPrivate ==
    [][\A t \in Tasks :
          LET r == task[t]
          IN  (/\ r.filename # << >> /\ ~Terminal(t)
               /\ r.filename[1] \in DOMAIN files
               /\ task'[t] = r)
              => /\ r.filename[1] \in DOMAIN files'
                 /\ files'[r.filename[1]] = files[r.filename[1]]]_vars

\* C14: whatever the interleaving of the requests, the cache entry of a URL
\* is the whole tuple of the last set_cache call made for it, that is of
\* the direct send that returned last with a video; there is one entry per
\* URL, so no field of an earlier write is mixed into it.
C14_LastWriteWins ==
    /\ OneRowPerUrl
    /\ \A u \in URLS :
          lastSet[u].args # << >> =>
              get_cache(cache, u) = DurationOrZero(lastSet[u].args)

\* two requests for one URL have both written, with different tuples, and
\* both are over
C14_Witness ==
    \E t1, t2 \in Tasks :
        /\ t1 # t2 /\ task[t1].url = task[t2].url
        /\ Terminal(t1) /\ Terminal(t2)
        /\ task[t1].row # << >> /\ task[t2].row # << >>
        /\ task[t1].row[1] # task[t2].row[1] /\ task[t1].row[3] # task[t2].row[3]
        /\ lastSet[task[t2].url].args = task[t2].row
        /\ get_cache(cache, task[t2].url) = DurationOrZero(task[t2].row)

\* C15 as stated: a request in which the send of the original or of the
\* fitted file has failed ends through the document fallback, Done with
\* the document or Failed(final-attempt-failed).
C15_SendFailureLeadsToDocument ==
    \A t \in Tasks :
        Terminal(t) /\ task[t].send_failed # {} =>
            task[t].reason \in {"document", "final-attempt-failed"}

\* the cache had an entry for the URL when the request came, and the
\* resend of its handle was rejected
Stale(t) ==
    /\ task[t].pc \notin {"idle", "cache_check", "resend"}
    /\ get_cache(task[t].cache0, task[t].url) # NoRow
    /\ "cache" \notin task[t].delivered

\* C16: a rejected resend of the cached handle leaves the request where a
\* cache miss would have left it, at the fast API for the fast-API
\* platform and at the generic extractor otherwise, and such a request is
\* Failed only after the generic extractor has been called.
C16_StaleHandleFallsThrough ==
    /\ [](\A t \in Tasks : Stale(t) /\ task[t].pc = "Failed" => task[t].probed)
    /\ [][\A t \in Tasks :
             (/\ task[t].pc = "resend" /\ task'[t] # task[t]
              /\ "cache" \notin task'[t].delivered)
             => /\ task'[t].pc = IF IsTikTok(task[t].url) THEN "tiktok" ELSE "probe"
                /\ task'[t] = AfterCache(task[t])]_vars

\* after a rejected resend the media was extracted afresh and delivered
C16_Witness ==
    \E t \in Tasks :
        Stale(t) /\ task[t].pc = "Done" /\ task[t].probed /\ task[t].delivered # {}

\* C17 as stated: when the fitted file is still over the ceiling the
\* request is Failed(too-large-after-fit), the fitted file has not been
\* sent and no document fallback is under way or done.
C17_TooLargeIsTerminal ==
    \A t \in Tasks :
        task[t].fit = "too-large" =>
            /\ task[t].pc = "Failed" /\ task[t].reason = "too-large-after-fit"
            /\ task[t].delivered \cap {"fitted", "document"} = {}

\* the waits of a retry loop that has slept n times: 1, 3, ..., 1 + 2(n-1)
LinearBackoff(kind, slept) ==
    \A k \in 1..Len(slept) : slept[k] = << kind, 1 + 2 * (k - 1) >>

\* C18: in the extraction loop and in the download loop alike, attempt i
\* is made after exactly i waits, the wait after the failed attempt i is
\* 1 + 2*i, a wait is taken only while i < MAX_DOWNLOAD_RETRIES, the
\* request is Failed (metadata-error resp. download-error) only at attempt
\* MAX_DOWNLOAD_RETRIES, and a login requirement ends either loop with no
\* wait after it.
C18_BoundedLinearBackoff ==
    \A t \in Tasks :
        LET r == task[t]
        IN  /\ r.pc \in {"probe", "probe_sleep"} \/ r.reason = "metadata-error" =>
                  /\ r.attempt <= MAX_DOWNLOAD_RETRIES
                  /\ Len(r.slept) = r.attempt
                  /\ LinearBackoff("probe", r.slept)
            /\ r.pc \in {"download", "download_sleep"} \/ r.reason = "download-error" =>
                  /\ r.attempt <= MAX_DOWNLOAD_RETRIES
                  /\ Len(r.slept) = r.attempt
                  /\ LinearBackoff("download", r.slept)
            /\ r.pc \in {"probe_sleep", "download_sleep"} => r.attempt < MAX_DOWNLOAD_RETRIES
            /\ r.reason \in {"metadata-error", "download-error"} =>
                  r.pc = "Failed" /\ r.attempt = MAX_DOWNLOAD_RETRIES
            /\ r.auth_seen # "" =>
                  /\ r.pc = "Failed" /\ r.reason = "auth-required"
                  /\ Len(r.slept) = r.attempt
                  /\ LinearBackoff(r.auth_seen, r.slept)

\* the download has failed three times, after waits of 1 and 3
C18_Witness ==
    \E t \in Tasks :
        /\ task[t].pc = "Failed" /\ task[t].reason = "download-error"
        /\ task[t].slept = << << "download", 1 >>, << "download", 3 >> >>

\* C19: a request whose download returned a file name under which no file
\* exists is Failed(artifact-not-produced): it made no further download
\* attempt, ran no encode and sent nothing; and no request goes on past
\* the download without its file.
C19_ArtifactMissingIsTerminal ==
    \A t \in Tasks :
        LET r == task[t]
        IN  /\ r.reason = "artifact-not-produced" =>
                  /\ r.pc = "Failed"
                  /\ r.filename # << >> /\ r.filename[1] \notin DOMAIN files
                  /\ r.attempt = 0 /\ r.slept = << >>
                  /\ r.fit = "" /\ r.iterations = 0
                  /\ r.send_failed = {}
                  /\ r.delivered \cap {"original", "fitted", "document"} = {}
            /\ r.filename # << >> /\ r.filename[1] \notin DOMAIN files /\ r.pc # "Done" =>
                  r.pc = "Failed" /\ r.reason = "artifact-not-produced"

\* yt-dlp left its file under another name than prepare_filename gave
C19_Witness ==
    \E t \in Tasks :
        /\ task[t].pc = "Failed" /\ task[t].reason = "artifact-not-produced"
        /\ AltName(task[t].url) \in DOMAIN files

\* h = f.get("height") or 0
Resolution(f) == PyOr(f.height, 0)

PlanFitting == {f \in PlanCandidates : Fits(f, planIn.max_bytes)}

\* C20 as stated: the candidate returned fits, no fitting candidate has a
\* higher resolution, and among the fitting candidates of its resolution
\* it is a largest one.
C20_PlannerPrefersLarger ==
    planOut.ran /\ PlanFitting # {} =>
        /\ planOut.best # NoFormat /\ planOut.best[1] \in PlanFitting
        /\ \A f \in PlanFitting :
              \/ Resolution(f) < Resolution(planOut.best[1])
              \/ /\ Resolution(f) = Resolution(planOut.best[1])
                 /\ DeclaredSize(f) <= DeclaredSize(planOut.best[1])

\* C20 as amended: the candidate returned fits, no fitting candidate has a
\* higher resolution, and among the fitting candidates of its resolution
\* it is a smallest one: the order is resolution descending, then size
\* ascending.
C20_PlannerPrefersSmaller ==
    planOut.ran /\ PlanFitting # {} =>
        /\ planOut.best # NoFormat /\ planOut.best[1] \in PlanFitting
        /\ \A f \in PlanFitting :
              \/ Resolution(f) < Resolution(planOut.best[1])
              \/ /\ Resolution(f) = Resolution(planOut.best[1])
                 /\ DeclaredSize(f) >= DeclaredSize(planOut.best[1])

\* two fitting candidates of one resolution, and the smaller is returned
C20_Witness ==
    /\ planOut.ran /\ planOut.best # NoFormat
    /\ \E f \in PlanFitting :
          /\ Resolution(f) = Resolution(planOut.best[1])
          /\ DeclaredSize(f) > DeclaredSize(planOut.best[1])


\* C21 as stated: once the transport has accepted the direct send of the
\* planned source, the cache entry of the URL holds the returned handle and
\* the request is Done(direct), or about to be, without a download.
C21_DirectSuccessEndsDone ==
    \A t \in Tasks :
        "direct" \in task[t].delivered =>
            /\ task[t].pc \in {"direct_return", "Done"}
            /\ task[t].pc = "Done" => task[t].reason = "direct"
            /\ task[t].wrote
            /\ task[t].filename = << >>


\* C22 as stated: a failed image send does not stop the remaining images
\* and never moves the request to the video download: from the image
\* stage the request steps to the next image, or ends.
C22_PhotoFailureKeepsSending ==
    [][\A t \in Tasks :
          (task[t].pc = "send_photos" /\ task'[t] # task[t]) =>
              /\ task'[t].pc \in {"send_photos", "Done", "Failed"}
              /\ task[t].i < Len(task[t].images) =>
                    /\ task'[t].pc = "send_photos"
                    /\ task'[t].i = task[t].i + 1]_vars


\* C23 as stated: when the encode fails, the substitute audio codec
\* included, the request is Failed with the encode error: no document
\* fallback is under way, and nothing is delivered afterwards.
C23_EncodeErrorIsTerminal ==
    \A t \in Tasks :
        task[t].fit = "raised" =>
            /\ task[t].pc = "Failed" /\ task[t].reason = "transcode-failed"
            /\ "document" \notin task[t].delivered


\* C24: while the fit of one request is running, every other request that
\* has not ended can take its next step, and a new message can start a
\* task in a free slot.
C24_EncodeNeverBlocks ==
    \A t \in Tasks : \A u \in Tasks \ {t} :
        (/\ task[t].pc = "ffmpeg"
         /\ ~Terminal(u)
         /\ task[u].pc = "idle" => admitted < MaxRequests * load)
        => ENABLED Step(u)

\* one request is in the third iteration of its fit while the other is
\* about to download and can do so
C24_Witness ==
    \E t \in Tasks : \E u \in Tasks \ {t} :
        /\ task[t].pc = "ffmpeg" /\ task[t].crf = 22
        /\ task[u].pc = "download"
        /\ ENABLED Step(u)


\* C25 as stated: a request delivers the media by at most one strategy.
C25_AtMostOnceDelivery ==
    \A t \in Tasks : Cardinality(task[t].delivered) <= 1


\* the iterations of a fit from CRF 18 to CRF 28 in steps of 2
MaxIterations == (28 - 18) \div 2 + 1

\* C26: every started request ends, Done or Failed, and until then it has
\* made at most MAX_DOWNLOAD_RETRIES + 1 attempts in the loop it is in and
\* at most six encode iterations.
C26_EveryRequestEnds ==
    /\ [](\A t \in Tasks :
             /\ task[t].attempt <= MAX_DOWNLOAD_RETRIES
             /\ task[t].iterations <= MaxIterations
             /\ task[t].i <= Len(task[t].images))
    /\ \A t \in Tasks : (task[t].pc # "idle") ~> Terminal(t)

\* a request has ended after the probe, the download and a fit that went
\* down to the quality floor
C26_Witness ==
    \E t \in Tasks :
        /\ Terminal(t) /\ task[t].probed /\ task[t].filename # << >>
        /\ task[t].fit = "too-large"

=============================================================================
